---- MODULE Spec2Model ----
(***************************************************************************)
(* Model of the sales-report apps s18.py and sales-app.py.                 *)
(*                                                                         *)
(* A Python string is a sequence of one-character strings, so formatting   *)
(* and digit stripping are computed character by character.                *)
(***************************************************************************)
EXTENDS Integers, Sequences, FiniteSets, TLC

VARIABLES
    raw,              \* the text handed to format_korean_phone (ui_form_phone)
    alt,              \* another spelling of the same digits (other separators)
    formatted_phone,  \* main(): formatted_phone = format_korean_phone(ui_form_phone)
    rec_phone,        \* build_record(): rec["phone"] = format_korean_phone(phone)
    alt_out,          \* format_korean_phone(alt)
    args,             \* the keyword arguments of one build_record call
    rec,              \* the record build_record returned
    pc,               \* position of the harness
    \* concurrent calls of format_korean_phone
    c_raw,            \* caller -> its argument raw
    c_digits,         \* caller -> its local variable digits
    c_ret,            \* caller -> the value returned to it
    c_pc,             \* caller -> where its call stands
    session_phone,    \* st.session_state.ui_form_phone, changed by other code
    \* s18.py: OAuth token cache
    token,            \* token.pkl: absent, or the pickled credentials
    credentials,      \* whether credentials.json exists
    oauth,            \* what the last call of oauth_get_gspread_client did
    ok_once,          \* a call has succeeded before
    \* s18.py: browser sessions over data/sales_records.json
    file,             \* the "records" list of the JSON file
    db,               \* session -> st.session_state.db["records"] (or unopened)
    editing_id,       \* session -> st.session_state.editing_id
    issued,           \* number of ids make_record_id has returned
    s18_last,         \* what the last handler did
    \* sales-app.py: the workbook
    wb,               \* the data rows of the sheet (row 2 onwards)
    has_id_col,       \* the header row has an "ID" column
    clock,            \* datetime.now(), in seconds
    edit_id,          \* st.session_state.edit_id
    wb_entry,         \* the data rows when the last load_all was entered
    wb_last,          \* what the last script run did
    \* both phone formatters on one text
    phone_in,         \* the text both functions are given
    s18_out,          \* what format_korean_phone (s18.py) returned
    sales_out         \* what format_phone (sales-app.py) returned

phoneVars == <<raw, alt, formatted_phone, rec_phone, alt_out, args, rec, pc>>

concVars == <<c_raw, c_digits, c_ret, c_pc, session_phone>>

oauthVars == <<token, credentials, oauth, ok_once>>

s18Vars == <<file, db, editing_id, issued, s18_last>>

wbVars == <<wb, has_id_col, clock, edit_id, wb_entry, wb_last>>

cmpVars == <<phone_in, s18_out, sales_out>>

vars == <<phoneVars, concVars, oauthVars, s18Vars, wbVars, cmpVars>>

\* The value of a variable in a specification that does not use it.
Unused == <<"<unused>">>

PhoneUnused ==
    /\ raw = Unused /\ alt = Unused /\ formatted_phone = Unused
    /\ rec_phone = Unused /\ alt_out = Unused /\ args = Unused
    /\ rec = Unused /\ pc = "unused"

ConcUnused ==
    /\ c_raw = Unused /\ c_digits = Unused /\ c_ret = Unused
    /\ c_pc = Unused /\ session_phone = Unused

OAuthUnused ==
    /\ token = Unused /\ credentials = Unused /\ oauth = Unused
    /\ ok_once = Unused

S18Unused ==
    /\ file = Unused /\ db = Unused /\ editing_id = Unused
    /\ issued = Unused /\ s18_last = Unused

WbUnused ==
    /\ wb = Unused /\ has_id_col = Unused /\ clock = Unused
    /\ edit_id = Unused /\ wb_entry = Unused /\ wb_last = Unused

CmpUnused == phone_in = Unused /\ s18_out = Unused /\ sales_out = Unused

-----------------------------------------------------------------------------
(* Bounds *)

\* Longest digit string typed into the phone field.
MaxLen == 13

\* Largest quantity typed into a charger / ancillary / extras cell.
MaxQty == 2

-----------------------------------------------------------------------------
(* Characters and Python string helpers *)

DigitChars == <<"0", "1", "2", "3", "4", "5", "6", "7", "8", "9">>

\* A decimal digit outside ASCII (ARABIC-INDIC DIGIT THREE): \D does not
\* match it either, so strip_digits keeps it.
ArabicThree == "U+0663"

\* SUPERSCRIPT TWO: str.isdigit() is True for it, \d does not match it.
SuperTwo == "U+00B2"

\* The characters \d matches.
Digits == {DigitChars[i] : i \in 1..Len(DigitChars)} \cup {ArabicThree}

\* Result value of a step that has not run yet.
NotYet == <<"<unset>">>

Min(a, b) == IF a < b THEN a ELSE b

\* Python s[a:b] for 0 <= a <= b (clamped to the length of s).
Slice(s, a, b) == SubSeq(s, a + 1, Min(b, Len(s)))

\* Python s[a:].
SliceFrom(s, a) == SubSeq(s, a + 1, Len(s))

\* Python s.startswith(p).
startswith(s, p) == Len(s) >= Len(p) /\ SubSeq(s, 1, Len(p)) = p

Hy == <<"-">>

-----------------------------------------------------------------------------
(* s18.py constants *)

MOBILE_PREFIXES ==
    { <<"0","1","0">>, <<"0","1","1">>, <<"0","1","6">>,
      <<"0","1","7">>, <<"0","1","8">>, <<"0","1","9">> }

AREA3 ==
    { <<"0","3","1">>, <<"0","3","2">>, <<"0","3","3">>,
      <<"0","4","1">>, <<"0","4","2">>, <<"0","4","3">>, <<"0","4","4">>,
      <<"0","5","1">>, <<"0","5","2">>, <<"0","5","3">>, <<"0","5","4">>,
      <<"0","5","5">>,
      <<"0","6","1">>, <<"0","6","2">>, <<"0","6","3">>, <<"0","6","4">> }

SERVICE_3 == { <<"0","7","0">>, <<"0","5","0">>, <<"0","8","0">> }

\* The literal set {"15", "16", "18"} of the short-code test.
SHORT_CODES == { <<"1","5">>, <<"1","6">>, <<"1","8">> }

SEOUL == <<"0","2">>

-----------------------------------------------------------------------------
(* strip_digits: re.sub(r"\D", "", s or "") *)

\* Mutant: only blanks and hyphens are removed; brackets and dots stay.
strip_digits_keep_brackets(s) == SelectSeq(s, LAMBDA c : c \notin {" ", "-"})

\* Mutant: the hyphen is treated as part of the number and stays.
strip_digits_keep_hyphen(s) == SelectSeq(s, LAMBDA c : c \in Digits \/ c = "-")

strip_digits(s) == SelectSeq(s, LAMBDA c : c \in Digits)

-----------------------------------------------------------------------------
(* format_korean_phone, one operator per branch of the function *)

\* Mutant: the short code is split 3/5.
format_short_code_split3(digits) == Slice(digits, 0, 3) \o Hy \o Slice(digits, 3, 8)

\* len(digits) == 8 and digits[:2] in {"15", "16", "18"}
format_short_code(digits) == Slice(digits, 0, 4) \o Hy \o Slice(digits, 4, 8)

\* Mutant: the 6..9 branch is taken for every length above 5.
format_seoul_no_long(digits) ==
    IF Len(digits) <= 2 THEN digits
    ELSE IF 3 <= Len(digits) /\ Len(digits) <= 5
         THEN SEOUL \o Hy \o SliceFrom(digits, 2)
    ELSE SEOUL \o Hy \o Slice(digits, 2, 5) \o Hy \o Slice(digits, 5, 9)

\* digits.startswith("02")
format_seoul(digits) ==
    IF Len(digits) <= 2 THEN digits
    ELSE IF 3 <= Len(digits) /\ Len(digits) <= 5
         THEN SEOUL \o Hy \o SliceFrom(digits, 2)
    ELSE IF 6 <= Len(digits) /\ Len(digits) <= 9
         THEN SEOUL \o Hy \o Slice(digits, 2, 5) \o Hy \o Slice(digits, 5, 9)
    ELSE SEOUL \o Hy \o Slice(digits, 2, 6) \o Hy \o Slice(digits, 6, 10)

\* Mutant: the last group is not cut at 11.
format_service_no_cut(digits) ==
    IF Len(digits) <= 3 THEN digits
    ELSE IF 4 <= Len(digits) /\ Len(digits) <= 7
         THEN Slice(digits, 0, 3) \o Hy \o SliceFrom(digits, 3)
    ELSE Slice(digits, 0, 3) \o Hy \o Slice(digits, 3, 7) \o Hy \o SliceFrom(digits, 7)

\* digits[:3] in SERVICE_3
format_service(digits) ==
    IF Len(digits) <= 3 THEN digits
    ELSE IF 4 <= Len(digits) /\ Len(digits) <= 7
         THEN Slice(digits, 0, 3) \o Hy \o SliceFrom(digits, 3)
    ELSE Slice(digits, 0, 3) \o Hy \o Slice(digits, 3, 7) \o Hy \o Slice(digits, 7, 11)

\* Mutant: the 3-4-4 split ends at 10 instead of 11.
format_mobile_cut10(digits) ==
    IF Len(digits) <= 3 THEN digits
    ELSE IF 4 <= Len(digits) /\ Len(digits) <= 7
         THEN Slice(digits, 0, 3) \o Hy \o SliceFrom(digits, 3)
    ELSE IF Len(digits) = 10
         THEN Slice(digits, 0, 3) \o Hy \o Slice(digits, 3, 6) \o Hy \o Slice(digits, 6, 10)
    ELSE Slice(digits, 0, 3) \o Hy \o Slice(digits, 3, 7) \o Hy \o Slice(digits, 7, 10)

\* Mutant: the len == 10 case is missing.
format_mobile_no10(digits) ==
    IF Len(digits) <= 3 THEN digits
    ELSE IF 4 <= Len(digits) /\ Len(digits) <= 7
         THEN Slice(digits, 0, 3) \o Hy \o SliceFrom(digits, 3)
    ELSE Slice(digits, 0, 3) \o Hy \o Slice(digits, 3, 7) \o Hy \o Slice(digits, 7, 11)

\* digits[:3] in MOBILE_PREFIXES
format_mobile(digits) ==
    IF Len(digits) <= 3 THEN digits
    ELSE IF 4 <= Len(digits) /\ Len(digits) <= 7
         THEN Slice(digits, 0, 3) \o Hy \o SliceFrom(digits, 3)
    ELSE IF Len(digits) = 10
         THEN Slice(digits, 0, 3) \o Hy \o Slice(digits, 3, 6) \o Hy \o Slice(digits, 6, 10)
    ELSE Slice(digits, 0, 3) \o Hy \o Slice(digits, 3, 7) \o Hy \o Slice(digits, 7, 11)

\* Mutant: the two-group form is kept up to 7 digits, as in the mobile branch.
format_area_upto7(digits) ==
    IF Len(digits) <= 3 THEN digits
    ELSE IF 4 <= Len(digits) /\ Len(digits) <= 7
         THEN Slice(digits, 0, 3) \o Hy \o SliceFrom(digits, 3)
    ELSE Slice(digits, 0, 3) \o Hy \o Slice(digits, 3, 6) \o Hy \o Slice(digits, 6, 10)

\* digits[:3] in AREA3
format_area(digits) ==
    IF Len(digits) <= 3 THEN digits
    ELSE IF 4 <= Len(digits) /\ Len(digits) <= 6
         THEN Slice(digits, 0, 3) \o Hy \o SliceFrom(digits, 3)
    ELSE Slice(digits, 0, 3) \o Hy \o Slice(digits, 3, 6) \o Hy \o Slice(digits, 6, 10)

\* Mutant: 9 digits are split 3-3-3 instead of 3 + rest.
format_fallback_split9(digits) ==
    IF Len(digits) = 8
    THEN Slice(digits, 0, 4) \o Hy \o Slice(digits, 4, 8)
    ELSE IF Len(digits) = 10
         THEN Slice(digits, 0, 3) \o Hy \o Slice(digits, 3, 6) \o Hy \o Slice(digits, 6, 10)
    ELSE IF Len(digits) >= 11
         THEN Slice(digits, 0, 3) \o Hy \o Slice(digits, 3, 7) \o Hy \o Slice(digits, 7, 11)
    ELSE IF Len(digits) <= 3 THEN digits
    ELSE IF Len(digits) = 9
         THEN Slice(digits, 0, 3) \o Hy \o Slice(digits, 3, 6) \o Hy \o Slice(digits, 6, 9)
    ELSE Slice(digits, 0, 3) \o Hy \o SliceFrom(digits, 3)

\* Mutant: three digits are already split.
format_fallback_split_at_3(digits) ==
    IF Len(digits) = 8
    THEN Slice(digits, 0, 4) \o Hy \o Slice(digits, 4, 8)
    ELSE IF Len(digits) = 10
         THEN Slice(digits, 0, 3) \o Hy \o Slice(digits, 3, 6) \o Hy \o Slice(digits, 6, 10)
    ELSE IF Len(digits) >= 11
         THEN Slice(digits, 0, 3) \o Hy \o Slice(digits, 3, 7) \o Hy \o Slice(digits, 7, 11)
    ELSE IF Len(digits) <= 2 THEN digits
    ELSE Slice(digits, 0, 3) \o Hy \o SliceFrom(digits, 3)

\* no prefix matched: by digit count alone
format_fallback(digits) ==
    IF Len(digits) = 8
    THEN Slice(digits, 0, 4) \o Hy \o Slice(digits, 4, 8)
    ELSE IF Len(digits) = 10
         THEN Slice(digits, 0, 3) \o Hy \o Slice(digits, 3, 6) \o Hy \o Slice(digits, 6, 10)
    ELSE IF Len(digits) >= 11
         THEN Slice(digits, 0, 3) \o Hy \o Slice(digits, 3, 7) \o Hy \o Slice(digits, 7, 11)
    ELSE IF Len(digits) <= 3 THEN digits
    ELSE Slice(digits, 0, 3) \o Hy \o SliceFrom(digits, 3)

\* Lines 109-149: the result, from the local variable digits.
format_digits(digits) ==
    IF digits = <<>> THEN <<>>
    ELSE IF Len(digits) = 8 /\ Slice(digits, 0, 2) \in SHORT_CODES
         THEN format_short_code(digits)
    ELSE IF startswith(digits, SEOUL) THEN format_seoul(digits)
    ELSE IF Slice(digits, 0, 3) \in SERVICE_3 THEN format_service(digits)
    ELSE IF Slice(digits, 0, 3) \in MOBILE_PREFIXES THEN format_mobile(digits)
    ELSE IF Slice(digits, 0, 3) \in AREA3 THEN format_area(digits)
    ELSE format_fallback(digits)

format_korean_phone(s) == format_digits(strip_digits(s))

-----------------------------------------------------------------------------
(* What is typed into the phone field *)

FillerSteps == {1, 7}

\* n filler digits: k, 2k, 3k, ... (mod 10)
Filler(k, n) == [i \in 1..n |-> DigitChars[((k * i) % 10) + 1]]

UnknownPrefixes ==
    { <<>>, <<"0","3","0">>, <<"0","6","0">>, <<"0","9","0">>, <<"0","0">>,
      <<"1","2">>, <<"9">>, <<ArabicThree>>, <<"0", ArabicThree>> }

InputPrefixes ==
    {SEOUL} \cup SERVICE_3 \cup MOBILE_PREFIXES \cup AREA3 \cup SHORT_CODES
        \cup UnknownPrefixes

\* Every digit string of at most MaxLen digits that is the start of
\* <prefix><filler>.
DigitStrings ==
    { Slice(p \o Filler(k, MaxLen), 0, n) :
        p \in InputPrefixes, k \in FillerSteps, n \in 0..MaxLen }

Styles == {"plain", "hyphen", "space", "paren"}

\* The non-digit characters a style puts after the i-th of n digits
\* (i = 0: before the first digit).
Ins(style, i, n) ==
    CASE style = "plain"  -> <<>>
      [] style = "hyphen" -> IF i \in {3, 7} /\ i < n THEN <<"-">> ELSE <<>>
      [] style = "space"  -> IF i \in {0, 3, 7, n} THEN <<" ">> ELSE <<>>
      [] style = "super"  -> IF i = n THEN <<SuperTwo>> ELSE <<>>
      [] style = "paren"  ->
            (IF i = 0 THEN <<"(">> ELSE <<>>)
               \o (IF i = Min(3, n) THEN <<")">> ELSE <<>>)
               \o (IF i = 7 THEN <<".">> ELSE <<>>)

\* The digit string d typed with the separators of a style.
Decorate(d, style) ==
    LET n == Len(d)
        Dec[i \in 0..n] ==
            IF i = 0 THEN Ins(style, 0, n)
            ELSE Dec[i - 1] \o <<d[i]>> \o Ins(style, i, n)
    IN  Dec[n]

-----------------------------------------------------------------------------
(* The phone field: typing, the on_change callback, submit *)

NoArgs == <<"<no call>">>

InitPhone ==
    /\ \E d \in DigitStrings, s1 \in Styles, s2 \in Styles :
          /\ raw = Decorate(d, s1)
          /\ alt = Decorate(d, s2)
    /\ formatted_phone = NotYet
    /\ rec_phone = NotYet
    /\ alt_out = NotYet
    /\ args = NoArgs
    /\ rec = NoArgs
    /\ pc = "input"
    /\ ConcUnused /\ OAuthUnused /\ S18Unused /\ WbUnused /\ CmpUnused

\* phone_on_change: the field is rewritten with its formatted value.
phone_on_change ==
    /\ pc = "input"
    /\ raw' = format_korean_phone(raw)
    /\ UNCHANGED <<alt, formatted_phone, rec_phone, alt_out, args, rec, pc>>
    /\ UNCHANGED <<concVars, oauthVars, s18Vars, wbVars, cmpVars>>

\* main(), submit: formatted_phone = format_korean_phone(ui_form_phone)
submit_format ==
    /\ pc = "input"
    /\ formatted_phone' = format_korean_phone(raw)
    /\ pc' = "formatted"
    /\ UNCHANGED <<raw, alt, rec_phone, alt_out, args, rec>>
    /\ UNCHANGED <<concVars, oauthVars, s18Vars, wbVars, cmpVars>>

\* build_record(phone=formatted_phone): "phone": format_korean_phone(phone)
submit_build ==
    /\ pc = "formatted"
    /\ rec_phone' = format_korean_phone(formatted_phone)
    /\ pc' = "built"
    /\ UNCHANGED <<raw, alt, formatted_phone, alt_out, args, rec>>
    /\ UNCHANGED <<concVars, oauthVars, s18Vars, wbVars, cmpVars>>

\* A second caller formats the other spelling.
format_alt ==
    /\ pc = "built"
    /\ alt_out' = format_korean_phone(alt)
    /\ pc' = "done"
    /\ UNCHANGED <<raw, alt, formatted_phone, rec_phone, args, rec>>
    /\ UNCHANGED <<concVars, oauthVars, s18Vars, wbVars, cmpVars>>

Next ==
    \/ phone_on_change
    \/ submit_format
    \/ submit_build
    \/ format_alt

Spec == InitPhone /\ [][Next]_vars

-----------------------------------------------------------------------------
(* Python values that are not strings of characters *)

PyNone == <<"None">>

PyInt(n) == <<"int", n>>

\* v or 0
or0(v) == IF v = PyNone \/ v = PyInt(0) THEN PyInt(0) ELSE v

\* int(v) of an int
int(v) == v[2]

\* mapping.get(k, default)
get(mapping, k, default) == IF k \in DOMAIN mapping THEN mapping[k] ELSE default

WhiteSpace == {" ", "\t"}

\* s.strip()
strip(s) ==
    LET inked == {i \in 1..Len(s) : s[i] \notin WhiteSpace} IN
    IF inked = {} THEN <<>>
    ELSE SubSeq(s, CHOOSE i \in inked : \A j \in inked : i <= j,
                   CHOOSE i \in inked : \A j \in inked : j <= i)

\* (s or "")
or_empty(s) == IF s = PyNone THEN <<>> ELSE s

\* The range of a list.
Range(list) == {list[i] : i \in 1..Len(list)}

\* sum(ints) of a list of integers
sum(ints) ==
    LET S[i \in 0..Len(ints)] == IF i = 0 THEN 0 ELSE S[i - 1] + ints[i]
    IN  S[Len(ints)]

-----------------------------------------------------------------------------
(* s18.py: the item lists (names transliterated), the record builder *)

CHARGER_MODELS ==
    << "2100A", "1100A", "3050A", "3050B", "3050C",
       "2007CP", "2007A", "2007C", "1007B", "1030A" >>

ANCILLARY_ITEMS ==
    << "I-bollard", "U-bollard", "base-pad(slow)", "base-pad(fast)",
       "canopy(slow)", "canopy(fast)", "floor-paint" >>

STATUS_CHOICES == << "in-progress", "done", "rejected" >>

\* The two columns of an extras row.
COL_NAME == "model_name"
COL_QTY == "qty"

DigitOf(n) == DigitChars[n + 1]

\* fmt_date: d.strftime("%Y-%m-%d"), d = <<year, month, day>>
fmt_date(d) ==
    << DigitOf(d[1] \div 1000), DigitOf((d[1] \div 100) % 10),
       DigitOf((d[1] \div 10) % 10), DigitOf(d[1] % 10), "-",
       DigitOf(d[2] \div 10), DigitOf(d[2] % 10), "-",
       DigitOf(d[3] \div 10), DigitOf(d[3] % 10) >>

\* Mutant: the number of non-zero entries instead of their sum.
tot_qty_count(keys, mapping) ==
    sum([i \in 1..Len(keys) |-> IF int(or0(mapping[keys[i]])) = 0 THEN 0 ELSE 1])

\* tot_qty: int(sum(int(v or 0) for v in mapping.values())); keys lists the
\* keys of the mapping in order.
tot_qty(keys, mapping) ==
    sum([i \in 1..Len(keys) |-> int(or0(mapping[keys[i]]))])

\* str(r.get(COL_NAME, "")).strip()
row_name(r) == strip(get(r, COL_NAME, <<>>))

\* int(r.get(COL_QTY, 0) or 0)
row_qty(r) == int(or0(get(r, COL_QTY, PyInt(0))))

\* The list comprehension that builds rec["extras"].
extras_of(extra_rows) ==
    LET kept == SelectSeq(extra_rows,
                          LAMBDA r : row_name(r) # <<>> /\ row_qty(r) > 0)
    IN  [i \in 1..Len(kept) |->
            [name |-> row_name(kept[i]), qty |-> PyInt(row_qty(kept[i]))]]

\* build_record(**a); new_id is what make_record_id() returns when it is
\* called, now what now_str() returns.
build_record(a, new_id, now) ==
    LET chargers ==
            [k \in Range(CHARGER_MODELS) |->
                PyInt(int(or0(get(a.charger_counts, k, PyInt(0)))))]
        ancillaries ==
            [k \in Range(ANCILLARY_ITEMS) |->
                PyInt(int(or0(get(a.ancillary_counts, k, PyInt(0)))))]
        extras == extras_of(a.extra_rows)
    IN  [ id           |-> IF a.record_id = PyNone THEN new_id ELSE a.record_id,
          created_at   |-> now,
          date         |-> fmt_date(a.d_date),
          salesperson  |-> strip(a.salesperson),
          site_name    |-> strip(a.site_name),
          manager_name |-> strip(a.manager_name),
          phone        |-> format_korean_phone(a.phone),
          remarks      |-> strip(or_empty(a.remarks)),
          status       |-> a.status,
          reason       |-> strip(or_empty(a.reason)),
          chargers     |-> chargers,
          ancillaries  |-> ancillaries,
          extras       |-> extras,
          totals       |->
            [ chargers_total    |-> tot_qty(CHARGER_MODELS, chargers),
              ancillaries_total |-> tot_qty(ANCILLARY_ITEMS, ancillaries),
              extras_total      |->
                  sum([i \in 1..Len(extras) |->
                          int(or0(get(extras[i], "qty", PyInt(0))))]) ] ]

-----------------------------------------------------------------------------
(* The arguments build_record is called with *)

\* Most extras rows in one call.
MaxRows == 2

\* A count cell: absent from the mapping, None, or 0..MaxQty.
CountCells == {PyNone} \cup {PyInt(n) : n \in 0..MaxQty}

\* The mappings with keys among ks, every present value drawn from cells.
Mappings(ks, cells) == UNION { [sub -> cells] : sub \in SUBSET ks }

\* A key that is in neither item list.
StrayKey == "ZZZ"

ChargerCounts ==
    { c \in Mappings({"2100A", "1030A", StrayKey}, CountCells) :
        /\ "1030A" \in DOMAIN c => c["1030A"] = PyInt(1)
        /\ StrayKey \in DOMAIN c => c[StrayKey] = PyInt(MaxQty) }

AncillaryCounts ==
    { c \in Mappings({"I-bollard", StrayKey}, CountCells) :
        StrayKey \in DOMAIN c => c[StrayKey] = PyInt(1) }

ExtraRowChoices ==
    { [model_name |-> <<"X", " ">>, qty |-> PyInt(1)],
      [model_name |-> <<" ", "Y">>, qty |-> PyInt(MaxQty)],
      [model_name |-> <<" ">>,      qty |-> PyInt(1)],
      [model_name |-> <<"X">>,      qty |-> PyInt(0)],
      [model_name |-> <<"Y">>,      qty |-> PyNone],
      [model_name |-> <<"X">>],
      [qty |-> PyInt(1)] }

ExtraRowLists == UNION { [1..n -> ExtraRowChoices] : n \in 0..MaxRows }

\* The calls: every charger and ancillary mapping with a few extras lists,
\* and every extras list with a few mappings.
SomeRowLists ==
    { <<>>,
      << [model_name |-> <<"X", " ">>, qty |-> PyInt(1)],
         [model_name |-> <<" ">>, qty |-> PyInt(1)] >> }

SomeChargerCounts ==
    { <<>>, [k \in {"2100A", "3050A", StrayKey} |-> PyInt(1)] }

SomeAncillaryCounts ==
    { [k \in {"I-bollard"} |-> PyInt(2)], [k \in {StrayKey} |-> PyNone] }

CountsAndRows ==
    (ChargerCounts \X AncillaryCounts \X SomeRowLists)
        \cup (SomeChargerCounts \X SomeAncillaryCounts \X ExtraRowLists)

\* The other fields, as two ways of filling the form.
FormFills ==
    { [ record_id    |-> PyNone,
        d_date       |-> <<2025, 8, 26>>,
        salesperson  |-> <<" ", "K", "i", "m", " ">>,
        site_name    |-> <<"S", " ", "1">>,
        manager_name |-> <<"\t", "L", "e", "e">>,
        remarks      |-> PyNone,
        status       |-> STATUS_CHOICES[1],
        reason       |-> <<>> ],
      [ record_id    |-> <<"uuid-0">>,
        d_date       |-> <<2026, 11, 4>>,
        salesperson  |-> <<"P">>,
        site_name    |-> <<"S", "2">>,
        manager_name |-> <<"C">>,
        remarks      |-> <<" ", "r">>,
        status       |-> STATUS_CHOICES[3],
        reason       |-> <<"n", "o", " ">> ] }

RecordPhones ==
    { <<"0","1","0","1","2","3","4","5","6","7","8">>,
      <<"(","0","2",")"," ","1","2","3","-","4","5","6","7">>,
      <<"-">> }

NewIds == { <<"uuid-1">>, <<"uuid-2">> }

Clock == { <<"2026-11-04 08:00:00">>, <<"2026-11-04 08:00:01">> }

WithArgs(fill, phone, cc, ac, rows) ==
    [ record_id |-> fill.record_id, d_date |-> fill.d_date,
      salesperson |-> fill.salesperson, site_name |-> fill.site_name,
      manager_name |-> fill.manager_name, phone |-> phone,
      remarks |-> fill.remarks, status |-> fill.status, reason |-> fill.reason,
      charger_counts |-> cc, ancillary_counts |-> ac, extra_rows |-> rows ]

InitRecord ==
    /\ \E fill \in FormFills, phone \in RecordPhones, car \in CountsAndRows :
          args = WithArgs(fill, phone, car[1], car[2], car[3])
    /\ rec = NoArgs
    /\ raw = <<>>
    /\ alt = <<>>
    /\ formatted_phone = NotYet
    /\ rec_phone = NotYet
    /\ alt_out = NotYet
    /\ pc = "call"
    /\ ConcUnused /\ OAuthUnused /\ S18Unused /\ WbUnused /\ CmpUnused

\* One call of build_record.
call_build_record ==
    /\ pc = "call"
    /\ \E new_id \in NewIds, now \in Clock : rec' = build_record(args, new_id, now)
    /\ pc' = "returned"
    /\ UNCHANGED <<raw, alt, formatted_phone, rec_phone, alt_out, args>>
    /\ UNCHANGED <<concVars, oauthVars, s18Vars, wbVars, cmpVars>>

NextRecord == call_build_record

SpecRecord == InitRecord /\ [][NextRecord]_vars

-----------------------------------------------------------------------------
(* Concurrent calls of format_korean_phone (one script thread per session) *)

\* Number of threads calling at the same time.
NCallers == 2

Callers == 1..NCallers

ConcInputs ==
    RecordPhones \cup
        { <<"0","1","0","-","1","2","3","-","4","5","6","7">>,
          <<"1","5","8","8","1","2","3","4">> }

InitConc ==
    /\ c_raw \in [Callers -> ConcInputs]
    /\ c_digits = [c \in Callers |-> NotYet]
    /\ c_ret = [c \in Callers |-> NotYet]
    /\ c_pc = [c \in Callers |-> "called"]
    /\ session_phone = <<>>
    /\ PhoneUnused /\ OAuthUnused /\ S18Unused /\ WbUnused /\ CmpUnused

\* Mutant: digits is a module-level global that every call assigns.
call_strip_global(c) ==
    /\ c_pc[c] = "called"
    /\ c_digits' = [k \in Callers |-> strip_digits(c_raw[c])]
    /\ c_pc' = [c_pc EXCEPT ![c] = "stripped"]
    /\ UNCHANGED <<c_raw, c_ret, session_phone>>
    /\ UNCHANGED <<phoneVars, oauthVars, s18Vars, wbVars, cmpVars>>

\* Line 108: digits = strip_digits(raw), a local of the call.
call_strip(c) ==
    /\ c_pc[c] = "called"
    /\ c_digits' = [c_digits EXCEPT ![c] = strip_digits(c_raw[c])]
    /\ c_pc' = [c_pc EXCEPT ![c] = "stripped"]
    /\ UNCHANGED <<c_raw, c_ret, session_phone>>
    /\ UNCHANGED <<phoneVars, oauthVars, s18Vars, wbVars, cmpVars>>

\* Lines 109-149: the return statement that matches the local digits.
call_return(c) ==
    /\ c_pc[c] = "stripped"
    /\ c_ret' = [c_ret EXCEPT ![c] = format_digits(c_digits[c])]
    /\ c_pc' = [c_pc EXCEPT ![c] = "returned"]
    /\ UNCHANGED <<c_raw, c_digits, session_phone>>
    /\ UNCHANGED <<phoneVars, oauthVars, s18Vars, wbVars, cmpVars>>

\* Other code of the app rewrites the session's phone field meanwhile.
session_update ==
    /\ \E v \in ConcInputs : session_phone' = format_korean_phone(v)
    /\ UNCHANGED <<c_raw, c_digits, c_ret, c_pc>>
    /\ UNCHANGED <<phoneVars, oauthVars, s18Vars, wbVars, cmpVars>>

NextConc ==
    \/ \E c \in Callers : call_strip(c)
    \/ \E c \in Callers : call_return(c)
    \/ session_update

SpecConc == InitConc /\ [][NextConc]_vars

-----------------------------------------------------------------------------
(* s18.py: oauth_get_gspread_client and the token cache *)

\* token.pkl does not exist.
NoToken == [exists |-> FALSE, valid |-> FALSE, expired |-> FALSE, refresh_token |-> FALSE]

\* token.pkl holding credentials: valid (token set, not expired), expired,
\* or neither (no access token); with or without a refresh token.
Creds(valid, expired, refresh_token) ==
    [exists |-> TRUE, valid |-> valid, expired |-> expired, refresh_token |-> refresh_token]

TokenStates ==
    {NoToken} \cup
        ({ Creds(v, e, r) : v \in BOOLEAN, e \in BOOLEAN, r \in BOOLEAN }
            \ { Creds(TRUE, TRUE, r) : r \in BOOLEAN })

NoCall ==
    [button |-> "none", result |-> "none", flow |-> FALSE,
     used_credentials |-> FALSE,
     token_before |-> NoToken, token_after |-> NoToken,
     credentials_before |-> FALSE, ok_before |-> FALSE]

\* The two export buttons: the current record, the whole list.
ExportButtons == {"current", "all"}

\* Mutant: an expired token is never refreshed, the login flow runs instead.
oauth_get_gspread_client_no_refresh(tok, cred, flow_refresh_token) ==
    IF tok.exists /\ tok.valid
    THEN [result |-> "ok", flow |-> FALSE, used_credentials |-> FALSE,
          token_after |-> tok]
    ELSE IF ~cred
         THEN [result |-> "FileNotFoundError", flow |-> FALSE,
               used_credentials |-> FALSE, token_after |-> tok]
    ELSE [result |-> "ok", flow |-> TRUE, used_credentials |-> TRUE,
          token_after |-> Creds(TRUE, FALSE, flow_refresh_token)]

\* oauth_get_gspread_client with token.pkl = tok and credentials.json
\* present iff cred; flow_refresh_token: whether the login flow, if it runs,
\* hands out a refresh token.  creds.refresh and run_local_server return
\* valid credentials.
oauth_get_gspread_client(tok, cred, flow_refresh_token) ==
    IF tok.exists /\ tok.valid
    THEN [result |-> "ok", flow |-> FALSE, used_credentials |-> FALSE,
          token_after |-> tok]
    ELSE IF tok.exists /\ tok.expired /\ tok.refresh_token
         THEN [result |-> "ok", flow |-> FALSE, used_credentials |-> FALSE,
               token_after |-> Creds(TRUE, FALSE, TRUE)]
    ELSE IF ~cred
         THEN [result |-> "FileNotFoundError", flow |-> FALSE,
               used_credentials |-> FALSE, token_after |-> tok]
    ELSE [result |-> "ok", flow |-> TRUE, used_credentials |-> TRUE,
          token_after |-> Creds(TRUE, FALSE, flow_refresh_token)]

InitOAuth ==
    /\ token \in TokenStates
    /\ credentials \in BOOLEAN
    /\ oauth = NoCall
    /\ ok_once = FALSE
    /\ PhoneUnused /\ ConcUnused /\ S18Unused /\ WbUnused /\ CmpUnused

\* An export button: credentials.json is written when a file was uploaded;
\* with nothing to export the handler stops at st.error, otherwise
\* gsheet_export_record / gsheet_export_all call oauth_get_gspread_client.
sheet_export ==
    \E button \in ExportButtons, uploaded \in BOOLEAN, has_data \in BOOLEAN,
       flow_refresh_token \in BOOLEAN :
        LET cred == credentials \/ uploaded
            out  == oauth_get_gspread_client(token, cred, flow_refresh_token)
        IN  /\ credentials' = cred
            /\ IF has_data
               THEN /\ token' = out.token_after
                    /\ oauth' = [button |-> button, result |-> out.result,
                                 flow |-> out.flow,
                                 used_credentials |-> out.used_credentials,
                                 token_before |-> token,
                                 token_after |-> out.token_after,
                                 credentials_before |-> cred,
                                 ok_before |-> ok_once]
                    /\ ok_once' = (ok_once \/ out.result = "ok")
               ELSE /\ oauth' = [NoCall EXCEPT !.button = button]
                    /\ UNCHANGED <<token, ok_once>>
            /\ UNCHANGED <<phoneVars, concVars, s18Vars, wbVars, cmpVars>>

\* The token-reset button: token.pkl is unlinked if it exists.
token_reset ==
    /\ token' = NoToken
    /\ UNCHANGED <<credentials, oauth, ok_once>>
    /\ UNCHANGED <<phoneVars, concVars, s18Vars, wbVars, cmpVars>>

\* Time passes: the access token of the stored credentials expires.
token_expires ==
    /\ token.exists /\ token.valid
    /\ token' = Creds(FALSE, TRUE, token.refresh_token)
    /\ UNCHANGED <<credentials, oauth, ok_once>>
    /\ UNCHANGED <<phoneVars, concVars, s18Vars, wbVars, cmpVars>>

NextOAuth ==
    \/ sheet_export
    \/ token_reset
    \/ token_expires

SpecOAuth == InitOAuth /\ [][NextOAuth]_vars

-----------------------------------------------------------------------------
(* s18.py: browser sessions sharing data/sales_records.json *)

Sessions == {"A", "B"}

\* Most record ids make_record_id hands out.
MaxIds == 2

\* uuid4: the n-th id made is unlike every id made before.
make_record_id(n) == <<"uuid", n>>

\* st.session_state of a session that has not run init_session yet.
NoSession == [open |-> FALSE, records |-> <<>>]

\* What the form holds when the submit button is pressed.
Form(salesperson, site_name, manager_name, phone, status, reason) ==
    [ salesperson |-> salesperson, site_name |-> site_name,
      manager_name |-> manager_name, phone |-> phone,
      status |-> status, reason |-> reason ]

SubmitForms ==
    { Form(<<"K", "i", "m">>, <<"S", "1">>, <<"L", "e", "e">>,
           <<"0","1","0","1","2","3","4","5","6","7","8">>, STATUS_CHOICES[1], <<>>),
      Form(<<" ", "P">>, <<"S", "2">>, <<"L", "e", "e">>,
           <<"0","2"," ","1","2","3"," ","4","5","6","7">>, STATUS_CHOICES[3],
           <<"n", "o">>),
      Form(<<" ">>, <<"S", "1">>, <<"L", "e", "e">>, <<"0","2">>, STATUS_CHOICES[1], <<>>),
      Form(<<"K">>, <<>>, <<"L", "e", "e">>, <<"0","2">>, STATUS_CHOICES[2], <<>>),
      Form(<<"K">>, <<"S", "1">>, <<"\t">>, <<"0","2">>, STATUS_CHOICES[1], <<>>),
      Form(<<"K">>, <<"S", "1">>, <<"L">>, <<"-">>, STATUS_CHOICES[1], <<>>),
      Form(<<"K">>, <<"S", "1">>, <<"L">>, <<"0","2">>, STATUS_CHOICES[3], <<" ">>) }

\* Mutant: the reason of a rejected deal is not asked for.
errs_no_reason(form) ==
    (IF strip(form.salesperson) = <<>> THEN <<"salesperson">> ELSE <<>>)
    \o (IF strip(form.site_name) = <<>> THEN <<"site_name">> ELSE <<>>)
    \o (IF strip(form.manager_name) = <<>> THEN <<"manager_name">> ELSE <<>>)
    \o (IF strip_digits(form.phone) = <<>> THEN <<"phone">> ELSE <<>>)

\* The list errs of the submit handler.
errs(form) ==
    (IF strip(form.salesperson) = <<>> THEN <<"salesperson">> ELSE <<>>)
    \o (IF strip(form.site_name) = <<>> THEN <<"site_name">> ELSE <<>>)
    \o (IF strip(form.manager_name) = <<>> THEN <<"manager_name">> ELSE <<>>)
    \o (IF strip_digits(form.phone) = <<>> THEN <<"phone">> ELSE <<>>)
    \o (IF form.status = STATUS_CHOICES[3] /\ strip(or_empty(form.reason)) = <<>>
        THEN <<"reason">> ELSE <<>>)

\* The arguments main passes to build_record.
SubmitArgs(form, record_id) ==
    [ record_id |-> record_id, d_date |-> <<2026, 11, 4>>,
      salesperson |-> form.salesperson, site_name |-> form.site_name,
      manager_name |-> form.manager_name,
      phone |-> format_korean_phone(form.phone),
      remarks |-> <<>>, status |-> form.status, reason |-> form.reason,
      charger_counts |-> [k \in Range(CHARGER_MODELS) |-> PyInt(0)],
      ancillary_counts |-> [k \in Range(ANCILLARY_ITEMS) |-> PyInt(0)],
      extra_rows |-> <<>> ]

\* now_str() at the submit.
SubmitTime == <<"2026-11-04 08:00:00">>

summarize_record(record) ==
    <<record.date, record.site_name, record.salesperson, record.status>>

\* The ids the record selectbox can yield: options is a dict keyed by label,
\* so of the records with one label the last one is kept.
ChoosableIds(records) ==
    { records[i].id : i \in
        { i \in 1..Len(records) :
            \A j \in (i + 1)..Len(records) :
                summarize_record(records[j]) # summarize_record(records[i]) } }

\* all_recs after the loop that replaces the first record with the id.
replace_first(records, id, record) ==
    IF \E i \in 1..Len(records) : records[i].id = id
    THEN [records EXCEPT ![CHOOSE i \in 1..Len(records) :
                              /\ records[i].id = id
                              /\ \A j \in 1..(i - 1) : records[j].id # id] = record]
    ELSE records

\* What the last script run did.
Event(s, kind, toast, form, record, chosen) ==
    [ session |-> s, kind |-> kind, toast |-> toast, form |-> form,
      record |-> record, chosen |-> chosen ]

InitS18 ==
    /\ file = <<>>
    /\ db = [s \in Sessions |-> NoSession]
    /\ editing_id = [s \in Sessions |-> PyNone]
    /\ issued = 0
    /\ s18_last = Event("none", "none", "none", NoArgs, NoArgs, PyNone)
    /\ PhoneUnused /\ ConcUnused /\ OAuthUnused /\ WbUnused /\ CmpUnused

\* A browser session starts: init_session loads the file into the session.
init_session(s) ==
    /\ db' = [db EXCEPT ![s] = [open |-> TRUE, records |-> file]]
    /\ editing_id' = [editing_id EXCEPT ![s] = PyNone]
    /\ s18_last' = Event(s, "open", "none", NoArgs, NoArgs, PyNone)
    /\ UNCHANGED <<file, issued>>
    /\ UNCHANGED <<phoneVars, concVars, oauthVars, wbVars, cmpVars>>

\* The sidebar's load button.
sidebar_load(s) ==
    /\ db[s].open
    /\ \E chosen_id \in ChoosableIds(db[s].records) :
          /\ editing_id' = [editing_id EXCEPT ![s] = chosen_id]
          /\ s18_last' = Event(s, "load", "none", NoArgs, NoArgs, chosen_id)
    /\ UNCHANGED <<file, db, issued>>
    /\ UNCHANGED <<phoneVars, concVars, oauthVars, wbVars, cmpVars>>

\* The sidebar's new-input button.
sidebar_new_input(s) ==
    /\ db[s].open
    /\ editing_id' = [editing_id EXCEPT ![s] = PyNone]
    /\ s18_last' = Event(s, "new-input", "none", NoArgs, NoArgs, PyNone)
    /\ UNCHANGED <<file, db, issued>>
    /\ UNCHANGED <<phoneVars, concVars, oauthVars, wbVars, cmpVars>>

\* The sidebar's delete button; save_db writes the session's list.
sidebar_delete(s) ==
    /\ db[s].open
    /\ \E chosen_id \in ChoosableIds(db[s].records) :
          LET kept == SelectSeq(db[s].records, LAMBDA r : r.id # chosen_id) IN
          /\ db' = [db EXCEPT ![s].records = kept]
          /\ file' = kept
          /\ s18_last' = Event(s, "delete", "deleted", NoArgs, NoArgs, chosen_id)
    /\ UNCHANGED <<editing_id, issued>>
    /\ UNCHANGED <<phoneVars, concVars, oauthVars, wbVars, cmpVars>>

\* The form's submit button.
submit(s, forms) ==
    /\ db[s].open
    /\ \E form \in forms :
          IF errs(form) # <<>>
          THEN /\ s18_last' = Event(s, "submit", "error", form, NoArgs, PyNone)
               /\ UNCHANGED <<file, db, editing_id, issued>>
          ELSE LET record == build_record(SubmitArgs(form, editing_id[s]),
                                          make_record_id(issued + 1), SubmitTime)
               IN  IF editing_id[s] = PyNone
                   THEN /\ issued < MaxIds
                        /\ issued' = issued + 1
                        /\ db' = [db EXCEPT ![s].records = Append(@, record)]
                        /\ file' = Append(db[s].records, record)
                        /\ editing_id' = [editing_id EXCEPT ![s] = record.id]
                        /\ s18_last' = Event(s, "submit", "saved", form, record, PyNone)
                   ELSE /\ db' = [db EXCEPT ![s].records =
                                     replace_first(@, editing_id[s], record)]
                        /\ file' = replace_first(db[s].records, editing_id[s], record)
                        /\ s18_last' = Event(s, "submit", "done", form, record, PyNone)
                        /\ UNCHANGED <<editing_id, issued>>
    /\ UNCHANGED <<phoneVars, concVars, oauthVars, wbVars, cmpVars>>

\* One browser session using the page.
NextS18 ==
    \/ init_session("A")
    \/ sidebar_load("A")
    \/ sidebar_new_input("A")
    \/ sidebar_delete("A")
    \/ submit("A", SubmitForms)

SpecS18 == InitS18 /\ [][NextS18]_vars

\* The forms that get past the validation.
AcceptedForms == {form \in SubmitForms : errs(form) = <<>>}

\* Every session using the page, each script run atomic.
NextShared ==
    \E s \in Sessions :
        \/ init_session(s)
        \/ sidebar_load(s)
        \/ sidebar_new_input(s)
        \/ sidebar_delete(s)
        \/ submit(s, AcceptedForms)

SpecShared == InitS18 /\ [][NextShared]_vars

-----------------------------------------------------------------------------
(* sales-app.py: the workbook, its IDs, the buttons *)

\* Most data rows of the workbook.
MaxSheetRows == 2

\* Last second of the clock.
MaxClock == 2

\* f"SR-{datetime.now():%Y%m%d%H%M%S}" at second t: the new-save ID.
SaveId(t) == <<"SR", t>>

\* Mutant: the row number is left out of a retrofitted ID.
RetrofitId_no_row(t, r) == <<"SR", t>>

\* f"SR-{datetime.now():%Y%m%d%H%M%S}-{str(r).zfill(4)}" at second t for
\* sheet row r.
RetrofitId(t, r) == <<"SR", t, r>>

SheetRow(id, site) == [id |-> id, site |-> site]

\* retrofit_missing_ids on the data rows; stamp[i] is datetime.now() when
\* data row i (sheet row i + 1) is reached.
retrofit_missing_ids(rows, id_col, stamp) ==
    IF ~id_col THEN rows
    ELSE [i \in 1..Len(rows) |->
            IF rows[i].id = PyNone
            THEN [rows[i] EXCEPT !.id = RetrofitId(stamp[i], i + 1)]
            ELSE rows[i]]

\* append_record: the record goes to row max_row + 1.
append_record(rows, record) == Append(rows, record)

\* The first data row whose ID cell prints like the given ID, 0 if none.
FirstWithId(rows, id) ==
    IF \E i \in 1..Len(rows) : rows[i].id = id
    THEN CHOOSE i \in 1..Len(rows) :
            /\ rows[i].id = id
            /\ \A j \in 1..(i - 1) : rows[j].id # id
    ELSE 0

\* update_record: [ok, rows]; the first matching row is overwritten.
update_record(rows, id_col, record) ==
    LET i == FirstWithId(rows, record.id) IN
    IF ~id_col \/ i = 0 THEN [ok |-> FALSE, rows |-> rows]
    ELSE [ok |-> TRUE, rows |-> [rows EXCEPT ![i] = record]]

\* delete_records([id]): [deleted, rows]; every matching row is deleted.
delete_records(rows, id_col, id) ==
    IF ~id_col THEN [deleted |-> 0, rows |-> rows]
    ELSE LET kept == SelectSeq(rows, LAMBDA row : row.id # id)
         IN  [deleted |-> Len(rows) - Len(kept), rows |-> kept]

\* What is typed into the site field.
SiteInputs == { <<"a">>, <<" ", "b">>, <<" ">> }

\* A workbook left by earlier use: rows without an ID, at most one row saved
\* at second 0.
LegacyIds == {PyNone, SaveId(0)}

LegacyWorkbooks ==
    { rows \in UNION { [1..n -> {SheetRow(id, <<"o">>) : id \in LegacyIds}] :
                         n \in 0..MaxSheetRows } :
        \A i, j \in 1..Len(rows) :
            (i # j /\ rows[i].id # PyNone) => rows[i].id # rows[j].id }

InitWb ==
    /\ wb \in LegacyWorkbooks
    /\ has_id_col \in BOOLEAN
    /\ clock = 1
    /\ edit_id = PyNone
    /\ wb_entry = <<>>
    /\ wb_last = [op |-> "none", deleted |-> 0]
    /\ PhoneUnused /\ ConcUnused /\ OAuthUnused /\ S18Unused /\ CmpUnused

\* The right column of every script run: load_all() on the rows the left
\* column left.  The clock may tick while retrofit_missing_ids walks the
\* rows: rows up to k are stamped clock, the later ones clock + 1.
load_all(rows) ==
    \E k \in 0..Len(rows) :
        /\ k < Len(rows) =>
              /\ has_id_col /\ \E i \in 1..Len(rows) : rows[i].id = PyNone
              /\ clock < MaxClock
        /\ clock' = IF k < Len(rows) THEN clock + 1 ELSE clock
        /\ wb_entry' = rows
        /\ wb' = retrofit_missing_ids(rows, has_id_col,
                     [i \in 1..Len(rows) |-> IF i <= k THEN clock ELSE clock + 1])

\* The page is opened or rerun with no button pressed.
open_page ==
    /\ load_all(wb)
    /\ wb_last' = [op |-> "open", deleted |-> 0]
    /\ UNCHANGED <<has_id_col, edit_id>>
    /\ UNCHANGED <<phoneVars, concVars, oauthVars, s18Vars, cmpVars>>

\* The new-save button.
new_save ==
    /\ wb_last.op # "none"
    /\ Len(wb) < MaxSheetRows
    /\ \E site \in SiteInputs :
          IF strip(site) = <<>>
          THEN /\ load_all(wb)
               /\ wb_last' = [op |-> "new-save rejected", deleted |-> 0]
          ELSE /\ load_all(append_record(wb, SheetRow(SaveId(clock), strip(site))))
               /\ wb_last' = [op |-> "new-save", deleted |-> 0]
    /\ UNCHANGED <<has_id_col, edit_id>>
    /\ UNCHANGED <<phoneVars, concVars, oauthVars, s18Vars, cmpVars>>

\* The edit button: update_record with the ID in edit_id.
edit_save ==
    /\ wb_last.op # "none"
    /\ \E site \in SiteInputs :
          IF edit_id = PyNone
          THEN /\ load_all(wb)
               /\ wb_last' = [op |-> "edit without load", deleted |-> 0]
               /\ UNCHANGED edit_id
          ELSE LET out == update_record(wb, has_id_col, SheetRow(edit_id, strip(site)))
               IN  /\ load_all(out.rows)
                   /\ wb_last' = [op |-> IF out.ok THEN "edit" ELSE "edit failed",
                                  deleted |-> 0]
                   /\ edit_id' = IF out.ok THEN PyNone ELSE edit_id
    /\ UNCHANGED has_id_col
    /\ UNCHANGED <<phoneVars, concVars, oauthVars, s18Vars, cmpVars>>

\* The form-reset button.
form_reset ==
    /\ wb_last.op # "none"
    /\ edit_id' = PyNone
    /\ load_all(wb)
    /\ wb_last' = [op |-> "reset", deleted |-> 0]
    /\ UNCHANGED has_id_col
    /\ UNCHANGED <<phoneVars, concVars, oauthVars, s18Vars, cmpVars>>

\* The IDs offered by the row selectbox (the list needs the ID column).
PickableIds == IF has_id_col THEN {wb[i].id : i \in 1..Len(wb)} ELSE {}

\* The load button on a picked row.
load_row ==
    /\ wb_last.op # "none"
    /\ \E picked_id \in PickableIds : edit_id' = picked_id
    /\ load_all(wb)
    /\ wb_last' = [op |-> "load", deleted |-> 0]
    /\ UNCHANGED has_id_col
    /\ UNCHANGED <<phoneVars, concVars, oauthVars, s18Vars, cmpVars>>

\* The delete button on a picked row.
delete_row ==
    /\ wb_last.op # "none"
    /\ \E picked_id \in PickableIds :
          LET out == delete_records(wb, has_id_col, picked_id)
          IN  /\ load_all(out.rows)
              /\ wb_last' = [op |-> "delete", deleted |-> out.deleted]
    /\ UNCHANGED <<has_id_col, edit_id>>
    /\ UNCHANGED <<phoneVars, concVars, oauthVars, s18Vars, cmpVars>>

\* A second passes.
tick ==
    /\ wb_last.op # "none"
    /\ clock < MaxClock
    /\ clock' = clock + 1
    /\ UNCHANGED <<wb, has_id_col, edit_id, wb_entry, wb_last>>
    /\ UNCHANGED <<phoneVars, concVars, oauthVars, s18Vars, cmpVars>>

NextWb ==
    \/ open_page
    \/ new_save
    \/ edit_save
    \/ form_reset
    \/ load_row
    \/ delete_row
    \/ tick

SpecWb == InitWb /\ [][NextWb]_vars

-----------------------------------------------------------------------------
(* sales-app.py format_phone next to s18.py format_korean_phone *)

\* The characters ch.isdigit() is True for.
IsDigitChars == Digits \cup {SuperTwo}

\* format_phone(s) of sales-app.py
format_phone(s) ==
    LET digits == SelectSeq(s, LAMBDA ch : ch \in IsDigitChars) IN
    IF startswith(digits, SEOUL) /\ Len(digits) = 10
    THEN Slice(digits, 0, 2) \o Hy \o Slice(digits, 2, 6) \o Hy \o SliceFrom(digits, 6)
    ELSE IF startswith(digits, SEOUL) /\ Len(digits) = 9
    THEN Slice(digits, 0, 2) \o Hy \o Slice(digits, 2, 5) \o Hy \o SliceFrom(digits, 5)
    ELSE IF Len(digits) = 11
    THEN Slice(digits, 0, 3) \o Hy \o Slice(digits, 3, 7) \o Hy \o SliceFrom(digits, 7)
    ELSE IF Len(digits) = 10
    THEN Slice(digits, 0, 3) \o Hy \o Slice(digits, 3, 6) \o Hy \o SliceFrom(digits, 6)
    ELSE IF Len(digits) = 8
    THEN Slice(digits, 0, 4) \o Hy \o SliceFrom(digits, 4)
    ELSE IF Len(digits) > 7
    THEN Slice(digits, 0, 3) \o Hy \o Slice(digits, 3, 7) \o Hy \o SliceFrom(digits, 7)
    ELSE IF Len(digits) > 3
    THEN Slice(digits, 0, 3) \o Hy \o SliceFrom(digits, 3)
    ELSE digits

\* How the texts given to both functions are typed.
CompareStyles == {"plain", "hyphen", "super"}

InitCompare ==
    /\ \E d \in DigitStrings, style \in CompareStyles : phone_in = Decorate(d, style)
    /\ s18_out = NotYet
    /\ sales_out = NotYet
    /\ PhoneUnused /\ ConcUnused /\ OAuthUnused /\ S18Unused /\ WbUnused

call_format_korean_phone ==
    /\ s18_out = NotYet
    /\ s18_out' = format_korean_phone(phone_in)
    /\ UNCHANGED <<phone_in, sales_out>>
    /\ UNCHANGED <<phoneVars, concVars, oauthVars, s18Vars, wbVars>>

call_format_phone ==
    /\ sales_out = NotYet
    /\ sales_out' = format_phone(phone_in)
    /\ UNCHANGED <<phone_in, s18_out>>
    /\ UNCHANGED <<phoneVars, concVars, oauthVars, s18Vars, wbVars>>

NextCompare == call_format_korean_phone \/ call_format_phone

SpecCompare == InitCompare /\ [][NextCompare]_vars

-----------------------------------------------------------------------------
(* Vocabulary of the properties *)

\* The digit characters of s, in order.
DigitsOf(s) ==
    LET P[i \in 0..Len(s)] ==
            IF i = 0 THEN <<>>
            ELSE IF s[i] \in Digits THEN Append(P[i - 1], s[i]) ELSE P[i - 1]
    IN  P[Len(s)]

HasDigit(s) == \E i \in 1..Len(s) : s[i] \in Digits

\* The digit string of the text that was formatted.
D == DigitsOf(raw)

Formatted == pc \in {"formatted", "built", "done"}

Built == pc \in {"built", "done"}

\* Characters first+1 .. last of the digit string (1-based, inclusive).
Part(first, last) == [i \in 1..(last - first + 1) |-> D[first + i - 1]]

\* Characters first+1 .. end of the digit string.
Rest(first) == Part(first, Len(D))

\* The prefix class the digit string falls in.
IsShort == Len(D) = 8 /\ <<D[1], D[2]>> \in SHORT_CODES
IsSeoul == Len(D) >= 2 /\ <<D[1], D[2]>> = SEOUL
Has3(S) == Len(D) >= 3 /\ <<D[1], D[2], D[3]>> \in S
IsService == Has3(SERVICE_3)
IsMobile == Has3(MOBILE_PREFIXES)
IsArea == Has3(AREA3)
IsUnknown == ~IsSeoul /\ ~IsService /\ ~IsMobile /\ ~IsArea

-----------------------------------------------------------------------------
(* C1 - C9: format_korean_phone *)

\* C1: formatting is idempotent: the phone build_record stores (formatted a
\* second time) equals the phone main() formatted once, also when digits
\* were dropped by the first formatting.
C1_Idempotent == Built => rec_phone = formatted_phone

C1_Witness ==
    /\ Built
    /\ Len(D) > 11
    /\ Len(DigitsOf(formatted_phone)) < Len(D)
    /\ rec_phone = formatted_phone

\* C2: a digit string starting with 02 is returned unchanged up to 2 digits,
\* as 02-rest for 3..5 digits, as 02-3-rest for 6..9 digits and as 02-4-4 of
\* the first 10 digits from 10 digits on.
C2_Seoul ==
    (Formatted /\ IsSeoul) =>
        formatted_phone =
            IF Len(D) <= 2 THEN D
            ELSE IF Len(D) <= 5 THEN <<"0", "2", "-">> \o Rest(3)
            ELSE IF Len(D) <= 9
                 THEN <<"0", "2", "-">> \o Part(3, 5) \o <<"-">> \o Rest(6)
            ELSE <<"0", "2", "-">> \o Part(3, 6) \o <<"-">> \o Part(7, 10)

C2_Witness ==
    /\ Formatted /\ IsSeoul /\ Len(D) > 10
    /\ Len(DigitsOf(formatted_phone)) = 10

\* C3: a digit string with a mobile prefix is returned unchanged up to 3
\* digits, as 3-rest for 4..7 digits, as 3-3-4 for exactly 10 digits, and as
\* 3-4-(up to 4) of the first 11 digits for 8, 9 and 11 or more digits.
C3_Mobile ==
    (Formatted /\ IsMobile) =>
        formatted_phone =
            IF Len(D) <= 3 THEN D
            ELSE IF Len(D) <= 7 THEN Part(1, 3) \o <<"-">> \o Rest(4)
            ELSE IF Len(D) = 10
                 THEN Part(1, 3) \o <<"-">> \o Part(4, 6) \o <<"-">> \o Part(7, 10)
            ELSE Part(1, 3) \o <<"-">> \o Part(4, 7) \o <<"-">>
                     \o Part(8, Min(11, Len(D)))

C3_Witness ==
    /\ Formatted /\ IsMobile /\ Len(D) = 10
    /\ Len(formatted_phone) = 12 /\ formatted_phone[8] = "-"

\* C4: a digit string with one of the 16 area codes is returned unchanged up
\* to 3 digits, as 3-rest for 4..6 digits, and as 3-3-(up to 4) of the first
\* 10 digits from 7 digits on.
C4_Area ==
    (Formatted /\ IsArea) =>
        formatted_phone =
            IF Len(D) <= 3 THEN D
            ELSE IF Len(D) <= 6 THEN Part(1, 3) \o <<"-">> \o Rest(4)
            ELSE Part(1, 3) \o <<"-">> \o Part(4, 6) \o <<"-">>
                     \o Part(7, Min(10, Len(D)))

C4_Witness ==
    /\ Formatted /\ IsArea /\ Len(D) = 7
    /\ Len(formatted_phone) = 9 /\ formatted_phone[8] = "-"

\* C5: a digit string with a service code (070, 050, 080) is returned
\* unchanged up to 3 digits, as 3-rest for 4..7 digits, and as 3-4-(up to 4)
\* of the first 11 digits from 8 digits on.
C5_Service ==
    (Formatted /\ IsService) =>
        formatted_phone =
            IF Len(D) <= 3 THEN D
            ELSE IF Len(D) <= 7 THEN Part(1, 3) \o <<"-">> \o Rest(4)
            ELSE Part(1, 3) \o <<"-">> \o Part(4, 7) \o <<"-">>
                     \o Part(8, Min(11, Len(D)))

C5_Witness ==
    /\ Formatted /\ IsService /\ Len(D) > 11
    /\ Len(DigitsOf(formatted_phone)) = 11

\* C6: a digit string with no recognised prefix is formatted by its length
\* alone: 4-4 for 8 digits, 3-3-4 for 10, 3-4-4 of the first 11 digits for
\* 11 or more, unchanged up to 3, and 3-rest otherwise (4..7 and 9).
C6_Fallback ==
    (Formatted /\ IsUnknown) =>
        formatted_phone =
            IF Len(D) = 8 THEN Part(1, 4) \o <<"-">> \o Part(5, 8)
            ELSE IF Len(D) = 10
                 THEN Part(1, 3) \o <<"-">> \o Part(4, 6) \o <<"-">> \o Part(7, 10)
            ELSE IF Len(D) >= 11
                 THEN Part(1, 3) \o <<"-">> \o Part(4, 7) \o <<"-">> \o Part(8, 11)
            ELSE IF Len(D) <= 3 THEN D
            ELSE Part(1, 3) \o <<"-">> \o Rest(4)

C6_Witness ==
    /\ Formatted /\ IsUnknown /\ ~IsShort /\ Len(D) = 9
    /\ Len(formatted_phone) = 10

\* C7: an 8-digit string starting with 15, 16 or 18 is split 4-4, whatever
\* the later prefix rules would do.
C7_ShortCode ==
    (Formatted /\ IsShort) =>
        formatted_phone = Part(1, 4) \o <<"-">> \o Part(5, 8)

C7_Witness ==
    /\ Formatted /\ IsShort
    /\ Len(formatted_phone) = 9 /\ formatted_phone[5] = "-"

\* C8: the result is always a string; it is empty exactly when the input has
\* no digit character.
C8_EmptyIffNoDigit ==
    Formatted =>
        /\ formatted_phone \in Seq(Digits \cup {"-"})
        /\ (formatted_phone = <<>>) <=> ~HasDigit(raw)

C8_Witness ==
    /\ Formatted /\ raw # <<>> /\ ~HasDigit(raw)
    /\ formatted_phone = <<>>

\* C9: two inputs with the same digits in the same order, whatever their
\* separators, are formatted to the same string.
C9_DigitProjection ==
    (pc = "done" /\ DigitsOf(alt) = DigitsOf(raw)) => alt_out = formatted_phone

C9_Witness ==
    /\ pc = "done" /\ DigitsOf(alt) = DigitsOf(raw)
    /\ alt # raw /\ Len(D) >= 8
    /\ HasDigit(alt_out) /\ alt_out = formatted_phone

-----------------------------------------------------------------------------
(* C10: build_record *)

\* What one count cell of a mapping contributes to a total.
Contribution(mapping, k) ==
    IF k \notin DOMAIN mapping THEN 0
    ELSE IF mapping[k] = PyNone THEN 0
    ELSE mapping[k][2]

\* An extras row that is kept: a name with a non-blank character, a
\* quantity above 0.
Qualifies(r) ==
    /\ COL_NAME \in DOMAIN r
    /\ \E i \in 1..Len(r[COL_NAME]) : r[COL_NAME][i] \notin WhiteSpace
    /\ COL_QTY \in DOMAIN r
    /\ r[COL_QTY] # PyNone
    /\ r[COL_QTY][2] > 0

QualifyingRows == SelectSeq(args.extra_rows, Qualifies)

\* C10: the record's phone is the formatted phone; its charger and ancillary
\* totals are the sums over the fixed item lists (absent, None and 0 count as
\* 0, stray keys are ignored); its extras are exactly the rows with a
\* non-blank name and a quantity above 0, in order; extras_total is the sum
\* of the kept quantities.
C10_BuildRecord ==
    pc = "returned" =>
        /\ rec.phone = format_korean_phone(args.phone)
        /\ rec.totals.chargers_total =
              sum([i \in 1..Len(CHARGER_MODELS) |->
                      Contribution(args.charger_counts, CHARGER_MODELS[i])])
        /\ rec.totals.ancillaries_total =
              sum([i \in 1..Len(ANCILLARY_ITEMS) |->
                      Contribution(args.ancillary_counts, ANCILLARY_ITEMS[i])])
        /\ Len(rec.extras) = Len(QualifyingRows)
        /\ \A i \in 1..Len(rec.extras) :
              /\ rec.extras[i].name = strip(QualifyingRows[i][COL_NAME])
              /\ rec.extras[i].qty = QualifyingRows[i][COL_QTY]
        /\ rec.totals.extras_total =
              sum([i \in 1..Len(QualifyingRows) |-> QualifyingRows[i][COL_QTY][2]])

C10_Witness ==
    /\ pc = "returned"
    /\ StrayKey \in DOMAIN args.charger_counts
    /\ \E k \in DOMAIN args.charger_counts : args.charger_counts[k] = PyNone
    /\ rec.totals.chargers_total = 1
    /\ rec.totals.ancillaries_total > 0
    /\ Len(args.extra_rows) = 2 /\ Len(rec.extras) = 1
    /\ rec.totals.extras_total > 0
    /\ rec.phone = <<"0","2","-","1","2","3","-","4","5","6","7">>

-----------------------------------------------------------------------------
(* C11: format_korean_phone under concurrent callers *)

\* C11: however the calls of several callers interleave, and whatever the
\* session state is meanwhile, each caller gets the value a call alone
\* returns for its argument, and no step of a call changes the session
\* state or another caller's argument or result.
C11_Stateless ==
    [][\A c \in Callers :
          /\ c_pc'[c] = "returned" => c_ret'[c] = format_korean_phone(c_raw'[c])
          /\ c_pc'[c] # c_pc[c] =>
                /\ session_phone' = session_phone
                /\ \A k \in Callers \ {c} :
                      c_raw'[k] = c_raw[k] /\ c_ret'[k] = c_ret[k]]_vars

C11_Witness ==
    /\ c_pc[1] = "returned" /\ c_pc[2] = "stripped"
    /\ c_raw[1] # c_raw[2]
    /\ c_digits[1] # c_digits[2]
    /\ c_ret[1] = <<"0","1","0","-","1","2","3","4","-","5","6","7","8">>
    /\ session_phone # <<>>

-----------------------------------------------------------------------------
(* C12: OAuth token reuse *)

\* The stored credentials can be used without logging in again.
Reusable(tok) == tok.exists /\ (tok.valid \/ (tok.expired /\ tok.refresh_token))

-----------------------------------------------------------------------------
(* C13, C16: sales-app.py IDs *)

\* C13: after load_all on a workbook with an ID column every data row has an
\* ID; the rows that had none got pairwise distinct IDs, the others kept
\* theirs.
C13_Retrofit ==
    (has_id_col /\ wb_last.op # "none") =>
        /\ Len(wb) = Len(wb_entry)
        /\ \A i \in 1..Len(wb) :
              /\ wb[i].id # PyNone
              /\ wb_entry[i].id # PyNone => wb[i].id = wb_entry[i].id
              /\ \A j \in 1..Len(wb) :
                    (i # j /\ wb_entry[i].id = PyNone /\ wb_entry[j].id = PyNone)
                        => wb[i].id # wb[j].id

C13_Witness ==
    /\ has_id_col /\ wb_last.op = "open"
    /\ Len(wb) = 2
    /\ wb_entry[1].id = PyNone /\ wb_entry[2].id = PyNone
    /\ wb[1].id # PyNone /\ wb[2].id # PyNone
    /\ wb[1].id[2] = wb[2].id[2]

\* C16: no two data rows of the workbook share an ID.
C16_UniqueIds ==
    \A i, j \in 1..Len(wb) :
        (i # j /\ wb[i].id # PyNone) => wb[i].id # wb[j].id

-----------------------------------------------------------------------------
(* C14, C15, C17: s18.py submits *)

Submitted == s18_last.kind = "submit" /\ s18_last.toast \in {"saved", "done"}

\* C14: a submit that shows a success toast leaves the session's record list
\* holding the submitted record under the id in editing_id: appended with a
\* fresh id when editing_id was None, otherwise replacing the record with
\* that id in place.
C14_SubmitStores ==
    [][Submitted' =>
        LET s      == s18_last'.session
            before == db[s].records
            after  == db'[s].records
            stored == s18_last'.record
        IN  /\ editing_id'[s] = stored.id
            /\ \E i \in 1..Len(after) : after[i] = stored
            /\ editing_id[s] = PyNone =>
                  /\ after = Append(before, stored)
                  /\ \A i \in 1..Len(before) : before[i].id # stored.id
            /\ editing_id[s] # PyNone =>
                  /\ Len(after) = Len(before)
                  /\ \E i \in 1..Len(before) :
                        /\ before[i].id = editing_id[s]
                        /\ after = [before EXCEPT ![i] = stored]]_vars

\* C15: a record in the file stays in the file through every step that is
\* neither a delete of its id nor a submit under its id.
C15_FileKeeps ==
    [][\A i \in 1..Len(file) :
          ( /\ ~(s18_last'.kind = "delete" /\ s18_last'.chosen = file[i].id)
            /\ ~(/\ s18_last'.kind = "submit"
                 /\ s18_last'.toast \in {"saved", "done"}
                 /\ s18_last'.record.id = file[i].id) )
          => \E j \in 1..Len(file') : file'[j] = file[i]]_vars

Blank(s) == \A i \in 1..Len(s) : s[i] \in WhiteSpace

\* The forms the submit handler has to turn down.
Invalid(form) ==
    \/ Blank(form.salesperson)
    \/ Blank(form.site_name)
    \/ Blank(form.manager_name)
    \/ ~HasDigit(form.phone)
    \/ (form.status = "rejected" /\ Blank(form.reason))

Complete(record) ==
    /\ ~Blank(record.salesperson)
    /\ ~Blank(record.site_name)
    /\ ~Blank(record.manager_name)
    /\ HasDigit(record.phone)
    /\ record.status = "rejected" => ~Blank(record.reason)

\* C17: a submit is turned down exactly when a required field is blank, the
\* phone has no digit, or a rejected deal has no reason; a submit turned down
\* changes neither the record list, the file nor editing_id; every stored
\* record is complete.
C17_Validation ==
    /\ [](/\ s18_last.kind = "submit" =>
                ((s18_last.toast = "error") <=> Invalid(s18_last.form))
          /\ \A i \in 1..Len(file) : Complete(file[i])
          /\ \A s \in Sessions :
                \A i \in 1..Len(db[s].records) : Complete(db[s].records[i]))
    /\ [][(s18_last'.kind = "submit" /\ s18_last'.toast = "error")
            => (file' = file /\ db' = db /\ editing_id' = editing_id)]_vars

C17_Witness ==
    /\ s18_last.kind = "submit" /\ s18_last.toast = "error"
    /\ s18_last.form.status = "rejected"
    /\ ~Blank(s18_last.form.salesperson) /\ HasDigit(s18_last.form.phone)
    /\ Len(file) > 0
    /\ editing_id[s18_last.session] # PyNone

-----------------------------------------------------------------------------
(* C18: the shape of every output of format_korean_phone *)

Hyphens(s) == {i \in 1..Len(s) : s[i] = "-"}

IsPrefix(p, s) == Len(p) <= Len(s) /\ \A i \in 1..Len(p) : p[i] = s[i]

\* C18: the output holds only digits and "-", neither starts nor ends with
\* "-", has no "--", at most two hyphens and at most 11 digits; its digits
\* are a prefix of the input's digits, and all of them when these are at
\* most 10.
C18_Shape ==
    Formatted =>
        /\ \A i \in 1..Len(formatted_phone) : formatted_phone[i] \in Digits \cup {"-"}
        /\ 1 \notin Hyphens(formatted_phone)
        /\ Len(formatted_phone) \notin Hyphens(formatted_phone)
        /\ \A i \in Hyphens(formatted_phone) : i + 1 \notin Hyphens(formatted_phone)
        /\ Cardinality(Hyphens(formatted_phone)) <= 2
        /\ Len(DigitsOf(formatted_phone)) <= 11
        /\ IsPrefix(DigitsOf(formatted_phone), D)
        /\ Len(D) <= 10 => DigitsOf(formatted_phone) = D

C18_Witness ==
    /\ Formatted
    /\ Len(D) = 13
    /\ Len(raw) > Len(D)
    /\ Cardinality(Hyphens(formatted_phone)) = 2
    /\ Len(DigitsOf(formatted_phone)) = 11

-----------------------------------------------------------------------------
(* C19: the two formatters on standard-length numbers *)

BothCalled == s18_out # NotYet /\ sales_out # NotYet

\* Seoul 9 or 10 digits, mobile 10 or 11, area code 10, service code 11,
\* or 8 digits starting with 15, 16 or 18.
StandardLength(d) ==
    \/ (Len(d) \in {9, 10} /\ Len(d) >= 2 /\ SubSeq(d, 1, 2) = <<"0", "2">>)
    \/ (Len(d) \in {10, 11} /\ SubSeq(d, 1, 3) \in MOBILE_PREFIXES)
    \/ (Len(d) = 10 /\ SubSeq(d, 1, 3) \in AREA3)
    \/ (Len(d) = 11 /\ SubSeq(d, 1, 3) \in SERVICE_3)
    \/ (Len(d) = 8 /\ SubSeq(d, 1, 2) \in {<<"1","5">>, <<"1","6">>, <<"1","8">>})

\* C19: on every text whose digit string has a standard length, format_phone
\* returns what format_korean_phone returns.
C19_Agree ==
    (BothCalled /\ StandardLength(DigitsOf(phone_in))) => sales_out = s18_out

====
